---- MODULE Spec2Model ----
(***************************************************************************)
(* Model of classGrabber's app.py: the acquisition scheduler (the global   *)
(* task_running flag, the /start and /stop routes, the configuration       *)
(* routes and the background thread start_grab_course_task) and the        *)
(* schedule consolidation function process_course_detail.                  *)
(***************************************************************************)
EXTENDS Integers, Sequences, FiniteSets, TLC

(***************************************************************************)
(* Bounds of the model.                                                    *)
(***************************************************************************)
MaxId == 2          \* course ids (kcrwdm) are drawn from 1..MaxId
MaxCourses == 2     \* longest course list a request or the config file carries
MaxClock == 1       \* the wall clock runs over 0..MaxClock
MaxOffset == 1      \* config.offset is drawn from 0..MaxOffset
MaxWorkers == 2     \* threads spawned in one behaviour
MaxCalls == 3       \* route calls handled in one behaviour

Ids == 1..MaxId
Clock == 0..MaxClock
Workers == 1..MaxWorkers

(***************************************************************************)
(* Helpers on sequences.                                                   *)
(***************************************************************************)
Range(s) == {s[i] : i \in 1..Len(s)}

SeqsUpTo(S, n) == UNION {[1..k -> S] : k \in 0..n}

NoDup(s) == \A i, j \in 1..Len(s) : i # j => s[i] # s[j]

(***************************************************************************)
(* Config.start_time is Optional[str].  A stored value is None, a string   *)
(* that "%Y-%m-%d %H:%M:%S" does not match, or a string that denotes the   *)
(* clock value t.                                                          *)
(***************************************************************************)
NoneTime == [k |-> "none"]
MalformedTime == [k |-> "malformed"]
TimeStr(t) == [k |-> "time", t |-> t]

StartTimeStrings == {MalformedTime} \cup {TimeStr(t) : t \in 1..MaxClock}
StartTimes == {NoneTime} \cup StartTimeStrings

\* datetime.strptime(config.start_time, "%Y-%m-%d %H:%M:%S"): a value, a
\* ValueError for a string of another format, a TypeError for None.
strptime(s) ==
    CASE s.k = "time" -> [exc |-> "ok", val |-> s.t]
      [] s.k = "malformed" -> [exc |-> "ValueError"]
      [] OTHER -> [exc |-> "TypeError"]

\* The configurations load_config can return: the default Config() or a
\* config.json written by an earlier session.
Configs ==
    [start_time : StartTimes,
     offset : 0..MaxOffset,
     courses : {cs \in SeqsUpTo(Ids, MaxCourses) : NoDup(cs)}]

\* The response bodies httpx.post can bring back, and its transport failure.
Responses == {"enrolled", "full", "error"}

VARIABLES
    task_running,   \* the global flag of app.py
    config,         \* the global Config object: start_time, offset, courses
    now,            \* datetime.now()
    wpc,            \* per thread: "none", "top", "check", "grace", "grab",
                    \*   "inflight", "done"
    finished,       \* per thread: its set of acquired course ids
    iter,           \* per thread: the list object its for loop walks
    shared,         \* per thread: that list object is still config.courses
    idx,            \* per thread: position of the for loop in iter
    attempts,       \* history: who sent a grab_course request, and when
    log,            \* number of "started", "stopped", "completed" records
    runs,           \* history: number of Idle -> Running transitions
    calls,          \* number of route calls handled
    resp,           \* the last route response
    data,           \* consolidation: the JSON value handed to it
    detail          \* consolidation: what process_course_detail produced

schedVars == <<task_running, config, now, wpc, finished, iter, shared, idx,
               attempts, log, runs, calls, resp>>
consVars == <<data, detail>>
vars == <<task_running, config, now, wpc, finished, iter, shared, idx,
          attempts, log, runs, calls, resp, data, detail>>

NoResponse == [op |-> "none", status |-> 0]
NoDetail == [kind |-> "pending"]
NoData == [isList |-> TRUE, items |-> <<>>]

Alive(w) == wpc[w] \notin {"none", "done"}
InFor(w) == wpc[w] \in {"check", "grace", "grab", "inflight"}

\* The state at import time, with the configuration load_config returned.
SchedStart(c) ==
    /\ task_running = FALSE
    /\ config = c
    /\ now = 0
    /\ wpc = [w \in Workers |-> "none"]
    /\ finished = [w \in Workers |-> {}]
    /\ iter = [w \in Workers |-> <<>>]
    /\ shared = [w \in Workers |-> FALSE]
    /\ idx = [w \in Workers |-> 0]
    /\ attempts = {}
    /\ log = [started |-> 0, stopped |-> 0, completed |-> 0]
    /\ runs = 0
    /\ calls = 0
    /\ resp = NoResponse

\* Config(): no start time, offset 300, no courses.
DefaultOffset == 300
DefaultConfig == [start_time |-> NoneTime, offset |-> DefaultOffset, courses |-> <<>>]

Init ==
    /\ \E c \in Configs : SchedStart(c)
    /\ data = NoData
    /\ detail = NoDetail

(***************************************************************************)
(* log_message, for the three records the lifecycle writes.                *)
(***************************************************************************)
log_message(l, kind) == [l EXCEPT ![kind] = @ + 1]

(***************************************************************************)
(* start_grab_course_thread: spawn a thread when the flag is down, then    *)
(* write the "started" record.                                             *)
(***************************************************************************)
FreeWorkers == {w \in Workers : wpc[w] = "none"}
NextWorker == CHOOSE w \in FreeWorkers : \A v \in FreeWorkers : w <= v

start_grab_course_thread ==
    /\ IF ~task_running
       THEN /\ FreeWorkers # {}
            /\ task_running' = TRUE
            /\ wpc' = [wpc EXCEPT ![NextWorker] = "top"]
            /\ runs' = runs + 1
       ELSE UNCHANGED <<task_running, wpc, runs>>
    /\ log' = log_message(log, "started")

\* stop_grab_course: lower the flag and write the "stopped" record.
stop_grab_course ==
    /\ task_running' = FALSE
    /\ log' = log_message(log, "stopped")

(***************************************************************************)
(* The routes.                                                             *)
(***************************************************************************)
\* /start without its strptime check.
StartTimeSet(s) == s.k # "none"

\* The checks of /start before it starts the thread.
StartTimeAccepted(s) == s.k # "none" /\ strptime(s).exc = "ok"

start_grab_course_route ==
    /\ calls < MaxCalls
    /\ calls' = calls + 1
    /\ IF StartTimeAccepted(config.start_time)
       THEN /\ start_grab_course_thread
            /\ resp' = [op |-> "start", status |-> 200]
       ELSE /\ resp' = [op |-> "start", status |-> 400]
            /\ UNCHANGED <<task_running, wpc, runs, log>>
    /\ UNCHANGED <<config, now, finished, iter, shared, idx, attempts>>
    /\ UNCHANGED consVars

stop_grab_course_route ==
    /\ calls < MaxCalls
    /\ calls' = calls + 1
    /\ stop_grab_course
    /\ resp' = [op |-> "stop", status |-> 200]
    /\ UNCHANGED <<config, now, wpc, finished, iter, shared, idx, attempts, runs>>
    /\ UNCHANGED consVars

\* /update_config: the form's course list either parses (ids) or holds a
\* kcrwdm that int() rejects; config.courses is bound to a new list object.
update_config ==
    /\ calls < MaxCalls
    /\ calls' = calls + 1
    /\ \E st \in StartTimeStrings, off \in 0..MaxOffset,
          cs \in SeqsUpTo(Ids, MaxCourses), parses \in BOOLEAN :
          IF parses
          THEN /\ config' = [start_time |-> st, offset |-> off, courses |-> cs]
               /\ shared' = [w \in Workers |-> FALSE]
               /\ resp' = [op |-> "update_config", status |-> 302]
          ELSE /\ resp' = [op |-> "update_config", status |-> 400]
               /\ UNCHANGED <<config, shared>>
    /\ UNCHANGED <<task_running, now, wpc, finished, iter, idx, attempts, log, runs>>
    /\ UNCHANGED consVars

\* /add_course: a new id is appended to the list object config.courses, which
\* a running for loop over that object sees.
add_course ==
    /\ calls < MaxCalls
    /\ calls' = calls + 1
    /\ \E id \in Ids :
          IF id \in Range(config.courses)
          THEN /\ resp' = [op |-> "add_course", status |-> 400]
               /\ UNCHANGED <<config, iter>>
          ELSE /\ Len(config.courses) < MaxCourses
               /\ config' = [config EXCEPT !.courses = Append(@, id)]
               /\ iter' = [w \in Workers |->
                             IF InFor(w) /\ shared[w] THEN Append(iter[w], id)
                             ELSE iter[w]]
               /\ resp' = [op |-> "add_course", status |-> 200]
    /\ UNCHANGED <<task_running, now, wpc, finished, shared, idx, attempts, log, runs>>
    /\ UNCHANGED consVars

\* /update_remark: the remark of the first course with the given kcrwdm is
\* replaced; the ids and the order of config.courses stay (remarks are not
\* part of the modelled list).  A kcrwdm that is empty or no number is
\* rejected, one that no course has is not found.
update_remark ==
    /\ calls < MaxCalls
    /\ calls' = calls + 1
    /\ \E valid \in BOOLEAN, id \in Ids :
          resp' = [op |-> "update_remark",
                   status |-> IF ~valid THEN 400
                              ELSE IF id \in Range(config.courses) THEN 200
                              ELSE 404]
    /\ UNCHANGED <<task_running, config, now, wpc, finished, iter, shared, idx,
                   attempts, log, runs>>
    /\ UNCHANGED consVars

\* The wall clock advances.
Tick ==
    /\ now < MaxClock
    /\ now' = now + 1
    /\ UNCHANGED <<task_running, config, wpc, finished, iter, shared, idx,
                   attempts, log, runs, calls, resp>>
    /\ UNCHANGED consVars

(***************************************************************************)
(* start_grab_course_task, one step at a time.                             *)
(***************************************************************************)
\* target_time = start_time - timedelta(seconds=config.offset)
target_time(start, off) == start - off

\* The gate compared one tick early.
GateClosedEarly(current, target) == current + 1 < target

\* current_time < target_time: the gate is still closed.
GateClosed(current, target) == current < target

\* The loop top: the while test, the parse of config.start_time and the gate.
\* A closed gate sleeps and comes back here; an open one enters the for loop
\* over the list object config.courses.
LoopTop(w) ==
    /\ wpc[w] = "top"
    /\ IF ~task_running
       THEN /\ wpc' = [wpc EXCEPT ![w] = "done"]
            /\ UNCHANGED <<iter, shared, idx>>
       ELSE LET p == strptime(config.start_time) IN
            IF p.exc # "ok"
            THEN /\ wpc' = [wpc EXCEPT ![w] = "done"]
                 /\ UNCHANGED <<iter, shared, idx>>
            ELSE IF GateClosed(now, target_time(p.val, config.offset))
                 THEN UNCHANGED <<wpc, iter, shared, idx>>
                 ELSE /\ wpc' = [wpc EXCEPT ![w] = "check"]
                      /\ iter' = [iter EXCEPT ![w] = config.courses]
                      /\ shared' = [shared EXCEPT ![w] = TRUE]
                      /\ idx' = [idx EXCEPT ![w] = 1]
    /\ UNCHANGED <<task_running, config, now, finished, attempts, log, runs,
                   calls, resp>>
    /\ UNCHANGED consVars

\* len(finished) == len(config.courses)
CompletionTrips(w) == Cardinality(finished[w]) = Len(config.courses)

\* The head of the for loop: the next course, if any, and the completion test
\* in front of its request.
ForHead(w) ==
    /\ wpc[w] = "check"
    /\ IF idx[w] > Len(iter[w])
       THEN /\ wpc' = [wpc EXCEPT ![w] = "top"]
            /\ iter' = [iter EXCEPT ![w] = <<>>]
            /\ shared' = [shared EXCEPT ![w] = FALSE]
            /\ idx' = [idx EXCEPT ![w] = 0]
            /\ UNCHANGED <<task_running, log>>
       ELSE IF CompletionTrips(w)
            THEN /\ stop_grab_course
                 /\ wpc' = [wpc EXCEPT ![w] = "grace"]
                 /\ UNCHANGED <<iter, shared, idx>>
            ELSE /\ wpc' = [wpc EXCEPT ![w] = "grab"]
                 /\ UNCHANGED <<task_running, log, iter, shared, idx>>
    /\ UNCHANGED <<config, now, finished, attempts, runs, calls, resp>>
    /\ UNCHANGED consVars

\* time.sleep(3) is over: the completion record is written, and the body of
\* the for loop goes on to the request.
Grace(w) ==
    /\ wpc[w] = "grace"
    /\ log' = log_message(log, "completed")
    /\ wpc' = [wpc EXCEPT ![w] = "grab"]
    /\ UNCHANGED <<task_running, config, now, finished, iter, shared, idx,
                   attempts, runs, calls, resp>>
    /\ UNCHANGED consVars

\* grab_course sends the request for the current course.
Issue(w) ==
    /\ wpc[w] = "grab"
    /\ attempts' = attempts \cup {[w |-> w, at |-> now]}
    /\ wpc' = [wpc EXCEPT ![w] = "inflight"]
    /\ UNCHANGED <<task_running, config, now, finished, iter, shared, idx,
                   log, runs, calls, resp>>
    /\ UNCHANGED consVars

\* grab_course with a transport failure taken for the marker.
grab_course_failure_counts(r) == r \in {"enrolled", "error"}

\* grab_course's result: True only for a response that holds the marker; a
\* transport failure is caught and gives False.
grab_course(r) == r = "enrolled"

\* The request returns r; the course is recorded when grab_course says so,
\* and after time.sleep(config.delay) the for loop moves on.
Return(w, r) ==
    /\ wpc[w] = "inflight"
    /\ finished' = [finished EXCEPT ![w] =
                      IF grab_course(r) THEN @ \cup {iter[w][idx[w]]} ELSE @]
    /\ idx' = [idx EXCEPT ![w] = @ + 1]
    /\ wpc' = [wpc EXCEPT ![w] = "check"]
    /\ UNCHANGED <<task_running, config, now, iter, shared, attempts, log,
                   runs, calls, resp>>
    /\ UNCHANGED consVars

WorkerStep(w) ==
    \/ LoopTop(w)
    \/ ForHead(w)
    \/ Grace(w)
    \/ Issue(w)
    \/ \E r \in Responses : Return(w, r)

Next ==
    \/ start_grab_course_route
    \/ stop_grab_course_route
    \/ update_config
    \/ add_course
    \/ Tick
    \/ \E w \in Workers : WorkerStep(w)

Spec == Init /\ [][Next]_vars


(***************************************************************************)
(* The scheduler with the schedule window left as configured: every route  *)
(* but /update_config.                                                     *)
(***************************************************************************)
GateNext ==
    \/ start_grab_course_route
    \/ stop_grab_course_route
    \/ add_course
    \/ Tick
    \/ \E w \in Workers : WorkerStep(w)

GateSpec == Init /\ [][GateNext]_vars

(***************************************************************************)
(* Runs that nobody stops or reconfigures, under the scheduling the        *)
(* liveness property assumes: the clock advances, every thread that can    *)
(* take a step takes it, and a request for a course that is sent again and *)
(* again is answered with the marker at some point.                        *)
(***************************************************************************)
LiveNext ==
    \/ start_grab_course_route
    \/ Tick
    \/ \E w \in Workers : WorkerStep(w)

Enrolled(w, id) ==
    /\ wpc[w] = "inflight"
    /\ iter[w][idx[w]] = id
    /\ Return(w, "enrolled")

LiveFairness ==
    /\ WF_vars(Tick)
    /\ \A w \in Workers :
          /\ WF_vars(LoopTop(w))
          /\ WF_vars(ForHead(w))
          /\ WF_vars(Grace(w))
          /\ WF_vars(Issue(w))
          /\ WF_vars(\E r \in Responses : Return(w, r))
          /\ \A id \in Ids : SF_vars(Enrolled(w, id))

LiveSpec == Init /\ [][LiveNext]_vars /\ LiveFairness

(***************************************************************************)
(* The routes that edit the course list, with the scheduler idle.          *)
(***************************************************************************)
CourseNext ==
    \/ add_course
    \/ update_config
    \/ update_remark

CourseSpec == Init /\ [][CourseNext]_vars

(***************************************************************************)
(* process_course_detail.  Text is a sequence of characters; the CJK       *)
(* characters of the output are written "di", "zhou", "jie" and, for the   *)
(* weekday names, "yi" "er" "san" "si" "wu" "liu" "ri".                    *)
(*                                                                         *)
(* A JSON value of a record is null, a whole number, a number with a       *)
(* fraction (kept as its whole part), a string, or missing (no such key).  *)
(***************************************************************************)
JNull == [t |-> "null"]
JMissing == [t |-> "missing"]
JInt(n) == [t |-> "int", i |-> n]
JFloat(n) == [t |-> "float", whole |-> n]
JStr(cs) == [t |-> "str", s |-> cs]

\* Python values of the result dict: None or a str.
PyNone == [t |-> "none"]
PyStr(cs) == [t |-> "str", s |-> cs]

Digits == <<"0", "1", "2", "3", "4", "5", "6", "7", "8", "9">>
IsDigit(c) == \E i \in 1..10 : Digits[i] = c
DigitValue(c) == (CHOOSE i \in 1..10 : Digits[i] = c) - 1

\* str(n) of an int, as an f-string renders it.
RECURSIVE Decimal(_)
Decimal(n) ==
    IF n < 10 THEN <<Digits[n + 1]>>
    ELSE Decimal(n \div 10) \o <<Digits[(n % 10) + 1]>>

str(n) == IF n < 0 THEN <<"-">> \o Decimal(0 - n) ELSE Decimal(n)

\* sep.join(parts)
RECURSIVE join(_, _)
join(sep, parts) ==
    IF Len(parts) = 0 THEN <<>>
    ELSE IF Len(parts) = 1 THEN parts[1]
    ELSE parts[1] \o sep \o join(sep, Tail(parts))

\* text.split(sep) for a one-character sep.
RECURSIVE split(_, _)
split(cs, sep) ==
    IF \A i \in 1..Len(cs) : cs[i] # sep THEN <<cs>>
    ELSE LET k == CHOOSE i \in 1..Len(cs) :
                    cs[i] = sep /\ \A j \in 1..(i - 1) : cs[j] # sep
         IN <<SubSeq(cs, 1, k - 1)>> \o split(SubSeq(cs, k + 1, Len(cs)), sep)

\* text.strip(), which int() applies to a str.
RECURSIVE strip(_)
strip(cs) ==
    IF Len(cs) = 0 THEN cs
    ELSE IF cs[1] = " " THEN strip(Tail(cs))
    ELSE IF cs[Len(cs)] = " " THEN strip(SubSeq(cs, 1, Len(cs) - 1))
    ELSE cs

RECURSIVE DigitsValue(_)
DigitsValue(cs) ==
    IF Len(cs) = 0 THEN 0
    ELSE 10 * DigitsValue(SubSeq(cs, 1, Len(cs) - 1)) + DigitValue(cs[Len(cs)])

Ok(v) == [exc |-> "ok", val |-> v]
Raise(e, m) == [exc |-> e, msg |-> m]

\* int(text): an optional sign and decimal digits, blanks around them allowed.
int_of_str(cs) ==
    LET body == strip(cs)
        signed == Len(body) > 0 /\ body[1] \in {"+", "-"}
        ds == IF signed THEN Tail(body) ELSE body
    IN IF Len(ds) > 0 /\ \A i \in 1..Len(ds) : IsDigit(ds[i])
       THEN Ok(IF signed /\ body[1] = "-" THEN 0 - DigitsValue(ds) ELSE DigitsValue(ds))
       ELSE Raise("ValueError", <<"invalid literal for int(): ">> \o cs)

\* int(value) for a JSON value.
int(v) ==
    CASE v.t = "int" -> Ok(v.i)
      [] v.t = "float" -> Ok(v.whole)
      [] v.t = "str" -> int_of_str(v.s)
      [] OTHER -> Raise("TypeError", <<"int() argument must be a string or a number">>)

\* item[key]: the value, or a KeyError for a key the record lacks.
getitem(item, key) ==
    IF item[key].t = "missing" THEN Raise("KeyError", <<key>>) ELSE Ok(item[key])

\* map(int, parts), consumed from the left: the ints, or the first error.
RECURSIVE map_int(_)
map_int(parts) ==
    IF Len(parts) = 0 THEN Ok(<<>>)
    ELSE LET h == int_of_str(parts[1]) IN
         IF h.exc # "ok" THEN h
         ELSE LET r == map_int(Tail(parts)) IN
              IF r.exc # "ok" THEN r ELSE Ok(<<h.val>> \o r.val)

\* sorted(ints)
RECURSIVE InsertInt(_, _)
InsertInt(x, s) ==
    IF Len(s) = 0 THEN <<x>>
    ELSE IF x < s[1] THEN <<x>> \o s
    ELSE <<s[1]>> \o InsertInt(x, Tail(s))

RECURSIVE sorted(_)
sorted(s) == IF Len(s) = 0 THEN <<>> ELSE InsertInt(s[Len(s)], sorted(SubSeq(s, 1, Len(s) - 1)))

\* sorted(map(int, item["jcdm2"].split(","))): a value that is no str has no
\* split and raises AttributeError.
sessions_of(item) ==
    LET v == getitem(item, "jcdm2") IN
    IF v.exc # "ok" THEN v
    ELSE IF v.val.t # "str" THEN Raise("AttributeError", <<"object has no attribute split">>)
    ELSE LET r == map_int(split(v.val.s, ",")) IN
         IF r.exc # "ok" THEN r ELSE Ok(sorted(r.val))

\* One pass of the loop that builds time_segments and locations: the segment
\* and location of the record, or the first exception its fields raise.
segment_of(item) ==
    LET zc == getitem(item, "zc") IN
    IF zc.exc # "ok" THEN zc ELSE
    LET week == int(zc.val) IN
    IF week.exc # "ok" THEN week ELSE
    LET xq == getitem(item, "xq") IN
    IF xq.exc # "ok" THEN xq ELSE
    LET day == int(xq.val) IN
    IF day.exc # "ok" THEN day ELSE
    LET sessions == sessions_of(item) IN
    IF sessions.exc # "ok" THEN sessions ELSE
    LET location == getitem(item, "zdjxcdmc") IN
    IF location.exc # "ok" THEN location ELSE
    Ok([week |-> week.val,
        day |-> day.val,
        start_session |-> sessions.val[1],
        end_session |-> sessions.val[Len(sessions.val)],
        location |-> location.val])

\* The loop over data: every record's segment, or the first exception.
RECURSIVE segments_of(_)
segments_of(items) ==
    IF Len(items) = 0 THEN Ok(<<>>)
    ELSE LET h == segment_of(items[1]) IN
         IF h.exc # "ok" THEN h
         ELSE LET r == segments_of(Tail(items)) IN
              IF r.exc # "ok" THEN r ELSE Ok(<<h.val>> \o r.val)

TimeSegment(g) ==
    [week |-> g.week, day |-> g.day,
     start_session |-> g.start_session, end_session |-> g.end_session]

\* The sort key (week, day, start_session), compared as tuples.
KeyLess(a, b) ==
    \/ a.week < b.week
    \/ a.week = b.week /\ a.day < b.day
    \/ a.week = b.week /\ a.day = b.day /\ a.start_session < b.start_session

\* list.sort(key=...): stable.
RECURSIVE InsertSegment(_, _)
InsertSegment(x, s) ==
    IF Len(s) = 0 THEN <<x>>
    ELSE IF KeyLess(x, s[1]) THEN <<x>> \o s
    ELSE <<s[1]>> \o InsertSegment(x, Tail(s))

RECURSIVE sort_segments(_)
sort_segments(s) ==
    IF Len(s) = 0 THEN <<>>
    ELSE InsertSegment(s[Len(s)], sort_segments(SubSeq(s, 1, Len(s) - 1)))

\* The merge test with the weeks not compared.
MergeableAnyWeek(current, segment) ==
    /\ segment.day = current.day
    /\ segment.start_session = current.end_session + 1

\* The test that extends current_segment by segment.
Mergeable(current, segment) ==
    /\ segment.week = current.week
    /\ segment.day = current.day
    /\ segment.start_session = current.end_session + 1

\* The merge loop from position i on, with current_segment and the segments
\* appended so far.
RECURSIVE merge_loop(_, _, _, _)
merge_loop(segs, i, current, merged) ==
    IF i > Len(segs) THEN Append(merged, current)
    ELSE IF Mergeable(current, segs[i])
         THEN merge_loop(segs, i + 1,
                         [current EXCEPT !.end_session = segs[i].end_session], merged)
         ELSE merge_loop(segs, i + 1, segs[i], Append(merged, current))

merge_segments(segs) ==
    IF Len(segs) = 0 THEN <<>> ELSE merge_loop(segs, 2, segs[1], <<>>)

\* week_group: the keys in insertion order, each with its list of weeks.
GroupKey(seg) == <<seg.day, seg.start_session, seg.end_session>>

RECURSIVE group_loop(_, _, _)
group_loop(merged, i, groups) ==
    IF i > Len(merged) THEN groups
    ELSE LET key == GroupKey(merged[i])
             hit == {k \in 1..Len(groups) : groups[k].key = key}
         IN IF hit # {}
            THEN LET k == CHOOSE k \in hit : TRUE IN
                 group_loop(merged, i + 1,
                            [groups EXCEPT ![k].weeks = Append(@, merged[i].week)])
            ELSE group_loop(merged, i + 1,
                            Append(groups, [key |-> key, weeks |-> <<merged[i].week>>]))

\* week_group with its keys in the reverse of their insertion order.
week_groups_last_first(merged) ==
    [i \in 1..Len(group_loop(merged, 1, <<>>)) |->
        group_loop(merged, 1, <<>>)[Len(group_loop(merged, 1, <<>>)) + 1 - i]]

week_groups(merged) == group_loop(merged, 1, <<>>)

\* The loop over the sorted weeks that builds week_ranges.
RECURSIVE range_loop(_, _, _, _, _)
range_loop(weeks, i, start_week, end_week, ranges) ==
    IF i > Len(weeks) THEN Append(ranges, <<start_week, end_week>>)
    ELSE IF weeks[i] = end_week + 1
         THEN range_loop(weeks, i + 1, start_week, weeks[i], ranges)
         ELSE range_loop(weeks, i + 1, weeks[i], weeks[i],
                         Append(ranges, <<start_week, end_week>>))

week_ranges(weeks) ==
    LET ws == sorted(weeks) IN range_loop(ws, 2, ws[1], ws[1], <<>>)

\* One rendered range: a week, or first~last.
range_text(r) ==
    IF r[1] # r[2]
    THEN <<"di">> \o str(r[1]) \o <<"~">> \o str(r[2]) \o <<"zhou">>
    ELSE <<"di">> \o str(r[1]) \o <<"zhou">>

WEEKDAY_MAPPING == <<"yi", "er", "san", "si", "wu", "liu", "ri">>

\* " 周{WEEKDAY_MAPPING[day]} {start_session}~{end_session}节"
day_sessions_text(key) ==
    <<" ", "zhou", WEEKDAY_MAPPING[key[1]], " ">> \o str(key[2]) \o <<"~">>
        \o str(key[3]) \o <<"jie">>

\* The text of one group; a weekday outside the mapping raises KeyError.
format_group(g) ==
    IF g.key[1] \notin 1..Len(WEEKDAY_MAPPING) THEN Raise("KeyError", str(g.key[1]))
    ELSE IF Len(g.weeks) = 1
         THEN Ok(<<"di">> \o str(g.weeks[1]) \o <<"zhou">> \o day_sessions_text(g.key))
         ELSE Ok(join(<<",">>, [k \in 1..Len(week_ranges(g.weeks)) |->
                                   range_text(week_ranges(g.weeks)[k])])
                 \o day_sessions_text(g.key))

RECURSIVE format_groups(_)
format_groups(groups) ==
    IF Len(groups) = 0 THEN Ok(<<>>)
    ELSE LET h == format_group(groups[1]) IN
         IF h.exc # "ok" THEN h
         ELSE LET r == format_groups(Tail(groups)) IN
              IF r.exc # "ok" THEN r ELSE Ok(<<h.val>> \o r.val)

DescriptiveKeys ==
    {"course_name", "term", "teach_style", "teacher_name", "location_type",
     "location", "course_time"}

\* The dict of the except branch.
error_result(e) ==
    [k \in DescriptiveKeys \cup {"extra"} |->
        IF k = "extra" THEN PyStr(e.msg) ELSE PyNone]

\* first_item.get(key)
get(item, key) == IF item[key].t = "str" THEN PyStr(item[key].s) ELSE PyNone

\* The dict of "return {}".
EmptyDict == [k \in {} |-> PyNone]

Returned(value, segs, merged, groups, texts) ==
    [kind |-> "return", value |-> value, sorted |-> segs, merged |-> merged,
     groups |-> groups, formatted |-> texts]

Raised(e) == [kind |-> "raise", exc |-> e.exc]

\* The orders in which a set of names can come out of a Python set.
Orders(S) ==
    {o \in [1..Cardinality(S) -> S] : \A x \in S : \E i \in DOMAIN o : o[i] = x}

\* The first test without its emptiness half.
IsNotAList(d) == ~d.isList

\* not isinstance(data, list) or not data
IsNotAListOrEmpty(d) == ~d.isList \/ Len(d.items) = 0

\* The result dict of the normal return, for one order of the teacher set
\* and one element of locations.
result(first_item, teachers, location, texts) ==
    [k \in DescriptiveKeys |->
        CASE k = "course_name" -> get(first_item, "jxbmc")
          [] k = "term" -> get(first_item, "xnxqmc")
          [] k = "teach_style" -> get(first_item, "jxhjmc")
          [] k = "teacher_name" ->
               PyStr(join(<<",">>, [i \in DOMAIN teachers |-> teachers[i].s]))
          [] k = "location_type" -> get(first_item, "zdgnqmc")
          [] k = "location" -> location
          [] OTHER -> PyStr(join(<<",", " ">>, texts))]

\* From the formatted groups on: course_time, locations.pop() and the dict.
\* The order of the teacher set and the element pop() takes are not fixed by
\* the code.
formatted_to_result(items, locations, segs, merged, groups, formatted) ==
    IF formatted.exc # "ok"
    THEN {Returned(error_result(formatted), <<>>, <<>>, <<>>, <<>>)}
    ELSE {Returned(result(items[1], o, loc, formatted.val),
                   segs, merged, groups, formatted.val) :
             o \in Orders({get(items[i], "teaxms") : i \in 1..Len(items)}),
             loc \in locations}

\* From the merged segments on: the week groups and their texts.
merged_to_result(items, locations, segs, merged) ==
    formatted_to_result(items, locations, segs, merged, week_groups(merged),
                        format_groups(week_groups(merged)))

\* From the sorted time_segments on.
sorted_to_result(items, locations, segs) ==
    merged_to_result(items, locations, segs, merge_segments(segs))

\* From the records read on: an AttributeError escapes, the exceptions of the
\* except clause give the error dict.
read_to_result(items, read) ==
    IF read.exc = "AttributeError" THEN {Raised(read)}
    ELSE IF read.exc # "ok"
    THEN {Returned(error_result(read), <<>>, <<>>, <<>>, <<>>)}
    ELSE sorted_to_result(
             items,
             {get([l |-> read.val[i].location], "l") : i \in 1..Len(read.val)},
             sort_segments([i \in 1..Len(read.val) |-> TimeSegment(read.val[i])]))

\* What process_course_detail(d) can produce: the returned dict with the
\* intermediate lists it was built from, or the exception that escapes.
\* data[0] of an empty list is an IndexError, which the except clause does
\* not name; ",".join of a teacher set holding None is a TypeError.
process_course_detail(d) ==
    IF IsNotAListOrEmpty(d) THEN {Returned(EmptyDict, <<>>, <<>>, <<>>, <<>>)}
    ELSE IF Len(d.items) = 0
    THEN {Raised(Raise("IndexError", <<"list index out of range">>))}
    ELSE IF \E i \in 1..Len(d.items) : get(d.items[i], "teaxms") = PyNone
    THEN {Returned(error_result(Raise("TypeError",
                       <<"sequence item: expected str instance, NoneType found">>)),
                   <<>>, <<>>, <<>>, <<>>)}
    ELSE read_to_result(d.items, segments_of(d.items))

(***************************************************************************)
(* The records handed to process_course_detail.                            *)
(***************************************************************************)
MaxRecs == 3        \* longest record list
MaxWeek == 4        \* weeks of the week-compression inputs are 1..MaxWeek
MaxSession == 3     \* sessions of the merge inputs are 1..MaxSession

\* "a,a+1,...,b" as the service writes jcdm2.
SessionText(a, b) == join(<<",">>, [i \in 1..(b - a + 1) |-> str(a + i - 1)])

Record(zc, xq, jcdm2, location, teacher) ==
    [zc |-> zc, xq |-> xq, jcdm2 |-> jcdm2, zdjxcdmc |-> location,
     teaxms |-> teacher, jxbmc |-> JStr(<<"C">>), xnxqmc |-> JStr(<<"T">>),
     jxhjmc |-> JStr(<<"S">>), zdgnqmc |-> JStr(<<"L">>)]

\* The record (week w, weekday d, sessions a..b).
WellFormed(w, d, a, b) ==
    Record(JStr(str(w)), JStr(str(d)), JStr(SessionText(a, b)),
           JStr(<<"A">>), JStr(<<"t", "1">>))

ListOf(items) == [isList |-> TRUE, items |-> items]
NotAList == [isList |-> FALSE, items |-> <<>>]

SessionRanges == {r \in (1..MaxSession) \X (1..MaxSession) : r[1] <= r[2]}
WeekDays == {<<1, 1>>, <<1, 2>>, <<2, 1>>}

\* Records that abut, overlap, repeat or differ in week or weekday.
MergeRecords ==
    {WellFormed(wd[1], wd[2], r[1], r[2]) : wd \in WeekDays, r \in SessionRanges}

\* Records of one weekday over the weeks 1..MaxWeek.
WeekRecords == {WellFormed(w, 1, 1, b) : w \in 1..MaxWeek, b \in 1..2}

\* Records that differ in location and teacher.
PlaceRecords ==
    {Record(JStr(str(w)), JStr(str(1)), JStr(str(1)), JStr(<<l>>), JStr(<<"t", n>>)) :
        w \in 1..2, l \in {"A", "B"}, n \in {"1", "2"}}

\* Values int() takes although they are not the service's usual text.
LooseRecords ==
    {Record(zc, JStr(str(1)), jc, JStr(<<"A">>), JStr(<<"t", "1">>)) :
        zc \in {JInt(1), JStr(<<" ", "2">>), JStr(<<"+", "1">>), JStr(<<"1", "0">>)},
        jc \in {JStr(<<"2", ",", "1">>), JStr(<<"1">>)}}

\* Values that are no integer: for week and weekday, and for the sessions.
BadNumbers == {JNull, JFloat(1), JStr(<<"x">>), JStr(<<>>), JStr(<<"1", ".", "5">>)}
BadSessions == {JNull, JFloat(1), JStr(<<"x">>), JStr(<<>>), JStr(<<"1", ",", "x">>)}

\* Other defects: a key that is missing, a weekday outside 1..7, sessions
\* given as a number, a teacher that is null.
OtherDefects ==
    {<<"zc", JMissing>>, <<"jcdm2", JMissing>>, <<"zdjxcdmc", JMissing>>,
     <<"xq", JStr(str(8))>>, <<"jcdm2", JInt(1)>>, <<"teaxms", JNull>>}

Defects ==
    {<<"zc", v>> : v \in BadNumbers} \cup {<<"xq", v>> : v \in BadNumbers}
        \cup {<<"jcdm2", v>> : v \in BadSessions} \cup OtherDefects

DefectBase == {WellFormed(1, 1, 1, 1), WellFormed(2, 1, 1, 2)}

\* A well-formed list with one field of one record replaced.
DefectLists ==
    UNION {{[items EXCEPT ![p] = [@ EXCEPT ![d[1]] = d[2]]] :
               p \in 1..Len(items), d \in Defects} :
           items \in SeqsUpTo(DefectBase, MaxRecs)}

Inputs ==
    {NotAList}
        \cup {ListOf(items) : items \in SeqsUpTo(MergeRecords, MaxRecs)}
        \cup {ListOf(items) : items \in SeqsUpTo(WeekRecords, MaxRecs + 1)}
        \cup {ListOf(items) : items \in SeqsUpTo(PlaceRecords, MaxRecs)}
        \cup {ListOf(items) : items \in SeqsUpTo(LooseRecords, MaxRecs - 1)}
        \cup {ListOf(items) : items \in DefectLists}

\* /fetch_course_detail hands the service's answer to process_course_detail.
fetch_course_details ==
    /\ detail.kind = "pending"
    /\ detail' \in process_course_detail(data)
    /\ UNCHANGED data
    /\ UNCHANGED schedVars

ConsInit ==
    /\ SchedStart(DefaultConfig)
    /\ data \in Inputs
    /\ detail = NoDetail

ConsNext == fetch_course_details

ConsSpec == ConsInit /\ [][ConsNext]_vars

(***************************************************************************)
(* Properties of the scheduler.                                            *)
(***************************************************************************)
StartCalled == calls' = calls + 1 /\ resp'.op = "start"
StopCalled == calls' = calls + 1 /\ resp'.op = "stop"

\* C1: at most one thread is alive in every reachable state, for every
\* interleaving of start, stop and thread steps.
C1_AtMostOneWorkerAlive == Cardinality({w \in Workers : Alive(w)}) <= 1

\* C2: a start while the flag is up spawns no thread, leaves the flag up and
\* appends no "started" record.
C2_StartWhileRunningIsIdempotent ==
    [][(StartCalled /\ task_running) =>
          (/\ task_running'
           /\ wpc' = wpc
           /\ log'.started = log.started)]_vars

\* C3: a stop while the flag is down leaves the flag down, touches no thread
\* and appends no log record.
C3_StopWhileIdleIsNoOp ==
    [][(StopCalled /\ ~task_running) =>
          (/\ ~task_running'
           /\ wpc' = wpc
           /\ log' = log)]_vars

\* C4: once a thread is spawned (with the gate opening, nobody stopping it,
\* fair scheduling and every course answered with the marker at some point)
\* its acquired set reaches the size of the course list, the flag goes down
\* and the thread terminates.
C4_RunCompletes ==
    \A w \in Workers :
        /\ Alive(w) ~> (Cardinality(finished[w]) = Len(config.courses))
        /\ Alive(w) ~> ~task_running
        /\ Alive(w) ~> (wpc[w] = "done")

\* C5: with start time T and offset S no request is sent at a clock value
\* before T - S; before that the thread only polls, so a thread stopped
\* during the gate has sent nothing.
C5_NoAttemptBeforeGate ==
    \A a \in attempts :
        /\ config.start_time.k = "time"
        /\ a.at >= config.start_time.t - config.offset

C5_Witness ==
    /\ config.start_time.k = "time"
    /\ config.start_time.t - config.offset > 0
    /\ \E a \in attempts : a.at = config.start_time.t - config.offset
    /\ \E w \in Workers : wpc[w] = "done" /\ \A a \in attempts : a.w # w

\* C6: a start with the start time absent or unparsable answers with an
\* error and starts nothing: the flag, the threads and the requests sent
\* are as before.
C6_BadStartTimeRejected ==
    [][(StartCalled /\ config.start_time.k \in {"none", "malformed"}) =>
          (/\ resp'.status = 400
           /\ UNCHANGED <<task_running, wpc, attempts, runs>>)]_vars

C6_Witness ==
    /\ resp = [op |-> "start", status |-> 400]
    /\ config.start_time.k \in {"none", "malformed"}
    /\ ~task_running
    /\ \A w \in Workers : wpc[w] = "none"

(***************************************************************************)
(* Properties of process_course_detail.  They are stated on the state      *)
(* after fetch_course_details: data is what was handed in, detail what     *)
(* came out.                                                               *)
(***************************************************************************)
Processed == detail.kind # "pending"

\* Segment b directly continues segment a: same week, same weekday, and it
\* starts at the session after the one a ends with.
Abuts(a, b) ==
    /\ b.week = a.week
    /\ b.day = a.day
    /\ b.start_session = a.end_session + 1

\* The positions of s at which a new merged segment begins.
SegmentStarts(s) == {i \in 1..Len(s) : i = 1 \/ ~Abuts(s[i - 1], s[i])}

\* The k-th smallest element of a set of numbers.
Nth(S, k) == CHOOSE x \in S : Cardinality({y \in S : y < x}) = k - 1

\* The last position of the run that begins at the k-th start.
RunEnd(s, k) ==
    IF k = Cardinality(SegmentStarts(s)) THEN Len(s)
    ELSE Nth(SegmentStarts(s), k + 1) - 1

\* The records (w, d, sessions a..b) and (w, d, sessions b+1..c), in either
\* order, as the whole input.
AbuttingPair(w, d, a, b, c) ==
    {<<WellFormed(w, d, a, b), WellFormed(w, d, b + 1, c)>>,
     <<WellFormed(w, d, b + 1, c), WellFormed(w, d, a, b)>>}

\* C7: the tuples are scanned in the order of (week, weekday, startSession);
\* a tuple extends the current segment if and only if it has the same week
\* and weekday and starts at the current end + 1, otherwise it begins a new
\* segment, so the merged segments are the maximal runs of abutting tuples.
\* In particular (w, d, a..b) and (w, d, b+1..c) give the single segment
\* (w, d, a, c) whichever of the two comes first in the input.
C7_MergeIffAbutting ==
    (Processed /\ detail.kind = "return") =>
        /\ \A i \in 2..Len(detail.sorted) :
               ~KeyLess(detail.sorted[i], detail.sorted[i - 1])
        /\ Len(detail.merged) = Cardinality(SegmentStarts(detail.sorted))
        /\ \A k \in 1..Len(detail.merged) :
               detail.merged[k] =
                   [week |-> detail.sorted[Nth(SegmentStarts(detail.sorted), k)].week,
                    day |-> detail.sorted[Nth(SegmentStarts(detail.sorted), k)].day,
                    start_session |->
                        detail.sorted[Nth(SegmentStarts(detail.sorted), k)].start_session,
                    end_session |->
                        detail.sorted[RunEnd(detail.sorted, k)].end_session]
        /\ \A wd \in WeekDays, a \in 1..MaxSession, b \in 1..MaxSession,
              c \in 1..MaxSession :
               (a <= b /\ b < c /\ data.items \in AbuttingPair(wd[1], wd[2], a, b, c))
                   => detail.merged =
                          <<[week |-> wd[1], day |-> wd[2],
                             start_session |-> a, end_session |-> c]>>

\* The later record of an abutting pair came first in the input and the two
\* were merged into one segment.
C7_Witness ==
    /\ detail.kind = "return"
    /\ \E wd \in WeekDays, a \in 1..MaxSession, b \in 1..MaxSession,
          c \in 1..MaxSession :
           /\ a <= b /\ b < c
           /\ data.items = <<WellFormed(wd[1], wd[2], b + 1, c),
                              WellFormed(wd[1], wd[2], a, b)>>
           /\ detail.merged = <<[week |-> wd[1], day |-> wd[2],
                                 start_session |-> a, end_session |-> c]>>

\* The input is a non-empty list of well-formed records.
AllWellFormed ==
    /\ data.isList
    /\ Len(data.items) > 0
    /\ \A i \in 1..Len(data.items) :
           data.items[i] \in MergeRecords \cup WeekRecords \cup PlaceRecords

\* The maximal runs of consecutive weeks of a set of weeks, ascending.
MaximalRuns(W) ==
    {r \in W \X W : /\ r[1] <= r[2]
                     /\ \A x \in r[1]..r[2] : x \in W
                     /\ (r[1] - 1) \notin W
                     /\ (r[2] + 1) \notin W}

RunsAscending(W) ==
    [k \in 1..Cardinality(MaximalRuns(W)) |->
        CHOOSE r \in MaximalRuns(W) :
            Cardinality({q \in MaximalRuns(W) : q[1] < r[1]}) = k - 1]

\* The text of a group whose week ranges are the maximal runs of its weeks.
MinimalText(g) ==
    join(<<",">>, [k \in DOMAIN RunsAscending(Range(g.weeks)) |->
                      range_text(RunsAscending(Range(g.weeks))[k])])
        \o day_sessions_text(g.key)

\* C8: for every list of well-formed records, repeated ones included, each
\* group is rendered with the minimal contiguous ranges of its weeks:
\* ascending, disjoint, non-adjacent, covering exactly the group's weeks, a
\* single week without a dash.
C8_WeekRangesMinimal ==
    (Processed /\ AllWellFormed) =>
        /\ detail.kind = "return"
        /\ Len(detail.formatted) = Len(detail.groups)
        /\ \A k \in 1..Len(detail.groups) :
               detail.formatted[k] = MinimalText(detail.groups[k])

\* A week or weekday value that is no integer.
NotAnInteger(v) ==
    \/ v.t \in {"null", "float"}
    \/ v.t = "str" /\ int_of_str(v.s).exc # "ok"

\* A session value that is no list of integers.
NotIntegerSessions(v) ==
    \/ v.t \in {"null", "float"}
    \/ v.t = "str" /\ \E i \in DOMAIN split(v.s, ",") :
                          int_of_str(split(v.s, ",")[i]).exc # "ok"

\* Some record of the input has a non-integer week, weekday or session value.
SomeNonInteger ==
    /\ data.isList
    /\ \E i \in 1..Len(data.items) :
           \/ NotAnInteger(data.items[i]["zc"])
           \/ NotAnInteger(data.items[i]["xq"])
           \/ NotIntegerSessions(data.items[i]["jcdm2"])

\* C9: when some record has a non-integer week, weekday or session value,
\* no exception is raised and the result has all seven descriptive fields
\* empty and a non-empty diagnostic.
C9_MalformedGivesDiagnostic ==
    (Processed /\ SomeNonInteger) =>
        /\ detail.kind = "return"
        /\ DOMAIN detail.value = DescriptiveKeys \cup {"extra"}
        /\ \A k \in DescriptiveKeys : detail.value[k] = PyNone
        /\ detail.value["extra"].t = "str"
        /\ Len(detail.value["extra"].s) > 0

\* C10: for the empty list no exception is raised, and the result has no
\* descriptive field that is set and no diagnostic.
C10_EmptyInputEmptyResult ==
    (Processed /\ data = ListOf(<<>>)) =>
        /\ detail.kind = "return"
        /\ \A k \in DescriptiveKeys :
               k \in DOMAIN detail.value => detail.value[k] = PyNone
        /\ "extra" \notin DOMAIN detail.value

C10_Witness ==
    /\ data = ListOf(<<>>)
    /\ detail.kind = "return"
    /\ detail.value = EmptyDict

(***************************************************************************)
(* Properties of the thread's loop.                                        *)
(***************************************************************************)
\* Thread w sends a request in this step.
Issues(w) == wpc[w] = "grab" /\ wpc'[w] = "inflight"

\* Thread w writes the completion record in this step.
WritesCompleted(w) == wpc[w] = "grace" /\ log'.completed = log.completed + 1

\* C11: completion is the thread's last step: a thread whose completion
\* test has tripped (its acquired set has the size of the course list) sends
\* no further request, and after writing the completion record it leaves its
\* loop.  Stated for runs whose configuration stays as it was started.
C11_CompletionIsLastStep ==
    [][\A w \in Workers :
          /\ Issues(w) => ~CompletionTrips(w)
          /\ WritesCompleted(w) => wpc'[w] = "done"]_vars

\* C12: a stop is honoured between two requests: a thread that has had a
\* request answered in this pass and comes to the head of its for loop
\* while the last route call was /stop (so the flag is down and no later
\* /start has happened) goes to no further request; only a request already
\* in flight at the stop is finished.
C12_StopHonouredBetweenAttempts ==
    [][\A w \in Workers :
          (wpc[w] = "check" /\ idx[w] > 1 /\ resp.op = "stop" /\ ~task_running)
              => wpc'[w] \notin {"grab", "grace"}]_vars

\* C13: a pass attempts only the courses that are not yet in the thread's
\* acquired set: while the run is not complete, the course of a request in
\* flight has not been answered with the marker earlier in the run.
C13_AcquiredCoursesAreSkipped ==
    \A w \in Workers :
        (wpc[w] = "inflight" /\ ~CompletionTrips(w))
            => iter[w][idx[w]] \notin finished[w]

\* C14: a thread started with an empty course list (the gate opens) sends no
\* request, and without any stop it comes to its end with the flag down.
C14_EmptyListTerminates ==
    /\ [][\A w \in Workers : Issues(w) => Len(config.courses) > 0]_vars
    /\ \A w \in Workers :
          (Alive(w) /\ Len(config.courses) = 0) ~> (wpc[w] = "done" /\ ~task_running)

\* The request of thread w ends in a transport failure in this step.
TransportFailure(w) == Return(w, "error")

\* The last request of thread w in this pass was for id and left it
\* unacquired.
LeftUnacquired(w, id) ==
    /\ wpc[w] = "check"
    /\ idx[w] > 1
    /\ idx[w] - 1 <= Len(iter[w])
    /\ iter[w][idx[w] - 1] = id
    /\ id \notin finished[w]

\* A request of thread w for id is in flight.
Requested(w, id) == wpc[w] = "inflight" /\ iter[w][idx[w]] = id

\* C15: a transport failure ends neither the thread nor the run and is no
\* success: it leaves every acquired set and the flag as they were and the
\* thread goes on to the next course; a course left unacquired is requested
\* again, unless the flag goes down first.
C15_TransportFailureIsNotFatal ==
    /\ [][\A w \in Workers :
             TransportFailure(w) =>
                 /\ finished' = finished
                 /\ task_running' = task_running
                 /\ wpc'[w] = "check"
                 /\ idx'[w] = idx[w] + 1]_vars
    /\ \A w \in Workers, id \in Ids :
          LeftUnacquired(w, id) ~> (Requested(w, id) \/ ~task_running)

\* A thread whose only course is still unacquired after an earlier request
\* has the request for it in flight again.
C15_Witness ==
    \E w \in Workers :
        /\ Len(config.courses) = 1
        /\ finished[w] = {}
        /\ task_running
        /\ Requested(w, config.courses[1])
        /\ \E a \in attempts : a.w = w /\ a.at < now

(***************************************************************************)
(* Properties of the run state.                                            *)
(***************************************************************************)
\* C16: whenever the flag is up a live thread exists: no thread ends, by
\* returning or by an error, and leaves the flag up, whatever the sequence
\* of /start, /stop and configuration updates.
C16_RunningHasLiveWorker == task_running => \E w \in Workers : Alive(w)

\* Threads are spawned in the order of their numbers: the thread of the
\* latest run is the highest one spawned.
LatestWorker(w) == \A v \in Workers : wpc[v] # "none" => v <= w

\* Thread w lowers the flag in this step (its completion test trips).
LowersFlag(w) ==
    /\ wpc[w] = "check" /\ wpc'[w] = "grace"
    /\ task_running /\ ~task_running'

\* C17: a run is ended only by /stop or by its own completion: a thread
\* that lowers the flag is the thread of the latest run, never one spawned
\* by an earlier /start.
C17_OnlyOwnRunIsEnded ==
    [][\A w \in Workers : LowersFlag(w) => LatestWorker(w)]_vars

(***************************************************************************)
(* Further properties of process_course_detail.                            *)
(***************************************************************************)
\* The first position of the merged segments at which key is seen.
FirstSeen(merged, key) ==
    CHOOSE i \in 1..Len(merged) :
        /\ GroupKey(merged[i]) = key
        /\ \A j \in 1..(i - 1) : GroupKey(merged[j]) # key

IsSuffix(t, s) ==
    Len(t) <= Len(s) /\ SubSeq(s, Len(s) - Len(t) + 1, Len(s)) = t

\* C18: the groups of course_time stand in the order in which their key
\* (weekday, startSession, endSession) is first seen along the sorted and
\* merged segments, each key once; they are not sorted again by weekday or
\* session.
C18_GroupsInFirstSeenOrder ==
    (Processed /\ detail.kind = "return" /\ Len(detail.groups) > 0) =>
        /\ {detail.groups[i].key : i \in 1..Len(detail.groups)}
               = {GroupKey(detail.merged[i]) : i \in 1..Len(detail.merged)}
        /\ \A i, j \in 1..Len(detail.groups) :
               i < j => FirstSeen(detail.merged, detail.groups[i].key)
                            < FirstSeen(detail.merged, detail.groups[j].key)
        /\ Len(detail.formatted) = Len(detail.groups)
        /\ \A k \in 1..Len(detail.groups) :
               IsSuffix(day_sessions_text(detail.groups[k].key), detail.formatted[k])
        /\ detail.value["course_time"] = PyStr(join(<<",", " ">>, detail.formatted))

\* A key of a later weekday, first seen in an earlier week, stands before a
\* key of an earlier weekday.
C18_Witness ==
    /\ detail.kind = "return"
    /\ \E i, j \in 1..Len(detail.groups) :
          /\ i < j
          /\ detail.groups[i].key[1] > detail.groups[j].key[1]
          /\ detail.groups[i].weeks[1] < detail.groups[j].weeks[1]
    /\ detail.value["course_time"] = PyStr(join(<<",", " ">>, detail.formatted))

\* C19: the location and the time description are a function of the input:
\* any other evaluation of process_course_detail on the same data returns
\* the location and the course_time of this one.
C19_LocationIsDeterministic ==
    (Processed /\ detail.kind = "return") =>
        \A r \in process_course_detail(data) :
            /\ r.kind = "return"
            /\ DOMAIN r.value = DOMAIN detail.value
            /\ "location" \in DOMAIN detail.value =>
                   /\ r.value["location"] = detail.value["location"]
                   /\ r.value["course_time"] = detail.value["course_time"]

(***************************************************************************)
(* Properties of the course list.                                          *)
(***************************************************************************)
\* C20: no two courses of config.courses share an id, in every state that
\* /add_course, /update_config and /update_remark can reach.
C20_CourseIdsUnique == NoDup(config.courses)

====
